---------------------------- MODULE Spec2Model ----------------------------
(***************************************************************************)
(* Model of toiletcli's command line flag parser (src/src/flags.rs):       *)
(* parse_arg, parse_flags and parse_flags_until_subcommand.                *)
(*                                                                         *)
(* A string is a sequence of one-character strings, so that find('='),     *)
(* split_at, chars() and ends_with are computed the way the code computes  *)
(* them.  A flag table is a sequence of declarations [kind, names]; the    *)
(* destination the i-th declaration borrows is dest[i].  The argument      *)
(* iterator is the sequence args of the tokens not yet pulled.             *)
(*                                                                         *)
(* The build modelled is a debug build (debug_assertions on): check_flags  *)
(* runs at each call and an arithmetic overflow panics.                    *)
(***************************************************************************)
EXTENDS Integers, Sequences, FiniteSets, TLC

VARIABLES
  flags,             \* the flag table passed to the parser
  dest,              \* dest[i]: the value behind the i-th declaration's reference
  args,              \* the shared iterator: tokens not yet pulled
  pc,                \* "idle", "parse_flags", "until_subcommand", "returned",
                     \* "panicked"
  parsed_arguments,  \* parse_flags: the positionals collected so far
  ignore_rest,       \* parse_flags: a "--" has been seen
  result,            \* what the last call returned (None before any return)
  fn,                \* the entry point called last
  args0,             \* history: the iterator when the current call was made
  dest0,             \* history: the destinations when the current call was made
  trace,             \* history: one record per loop iteration of the current call
  sub,               \* history: the parse_flags_until_subcommand call made before
                     \* the current call: its table, its input, what it returned
  UNDERLINE_SUPPORTED,       \* common.rs: static mut UNDERLINE_SUPPORTED
  UNDERLINE_SUPPORTED_INIT,  \* common.rs: the Once of that name has completed
  USE_COLORS,                \* common.rs: static mut USE_COLORS
  env,               \* the environment variables and streams common.rs reads
  called,            \* history: the function of common.rs called last, and
                     \* what it returned
  probed,            \* history: what the first call of
                     \* is_underline_style_supported returned
  overwritten,       \* history: the value overwrite_should_use_colors was
                     \* given last
  windows,           \* the build target: cfg!(windows)
  mock_colors,       \* the build feature: cfg!(feature = "mock_colors")
  path,              \* common.rs: the argument of name_from_path
  name,              \* what name_from_path returned (None before the call)
  color,             \* colors.rs: the Color a method is called on
  method,            \* the method of PrintableColor called last
  printed            \* what that method returned (None before the call)

\* the state of flags.rs, the state of common.rs
flagsVars == <<flags, dest, args, pc, parsed_arguments, ignore_rest, result, fn,
               args0, dest0, trace, sub>>

commonVars == <<UNDERLINE_SUPPORTED, UNDERLINE_SUPPORTED_INIT, USE_COLORS, env,
                called, probed, overwritten>>

\* the build, and the arguments and results of the pure functions of common.rs
\* and colors.rs
pureVars == <<windows, mock_colors, path, name, color, method, printed>>

vars == <<flagsVars, commonVars, pureVars>>

----------------------------------------------------------------------------
(* Bounds of the model. *)

\* longest argument stream built from StreamTokens
MaxArgs == 3

\* most characters after the dash in a generated short cluster
MaxCluster == 3

\* the width of usize in the model, in bits (a build has 16, 32 or 64): wide
\* enough for no counter that starts at 0 or 1 to reach the maximum
UsizeBits == 4

----------------------------------------------------------------------------
(* Values. *)

None == [some |-> FALSE]

Some(v) == [some |-> TRUE, v |-> v]

Ok(v) == [ok |-> TRUE, val |-> v]

Err(type, flag) == [ok |-> FALSE, error_type |-> type, flag |-> flag]

\* FlagErrorType
FlagErrorType == {"CannotCombine", "NoValueProvided", "ExtraValueProvided", "Unknown"}

\* FlagType: the variant of a declaration
FlagType == {"BoolFlag", "StringFlag", "ManyFlag", "RepeatFlag"}

Flag(kind, names) == [kind |-> kind, names |-> names]

\* usize::MAX
UsizeMax == 2 ^ UsizeBits - 1

\* What parse_arg hands back when it does not return: a panic unwinds through
\* it (no FlagError is built; the record has an error's fields to compare with).
Panic == [ok |-> FALSE, error_type |-> "panic", flag |-> <<>>]


----------------------------------------------------------------------------
(* parse_arg: one token against the table, with the iterator at hand. *)

\* str::find: the index of the first occurrence of c in s, 0 when there is none
Find(s, c) ==
  IF \E i \in 1..Len(s) : s[i] = c
  THEN CHOOSE i \in 1..Len(s) : s[i] = c /\ \A j \in 1..(i - 1) : s[j] # c
  ELSE 0

\* Mutant of SplitArg: the split is made at the last '=' (rfind for find).
SplitArgAtLast(arg) ==
  LET pos == IF \E i \in 1..Len(arg) : arg[i] = "="
             THEN CHOOSE i \in 1..Len(arg) :
                    arg[i] = "=" /\ \A j \in (i + 1)..Len(arg) : arg[j] # "="
             ELSE 0
  IN  IF pos > 0
      THEN [arg_flag |-> SubSeq(arg, 1, pos - 1),
            arg_val  |-> Some(SubSeq(arg, pos + 1, Len(arg)))]
      ELSE [arg_flag |-> arg, arg_val |-> None]

\* The split of `-k=value` into key and value at the first '='.
SplitArg(arg) ==
  LET pos == Find(arg, "=")
  IN  IF pos > 0
      THEN [arg_flag |-> SubSeq(arg, 1, pos - 1),
            arg_val  |-> Some(SubSeq(arg, pos + 1, Len(arg)))]
      ELSE [arg_flag |-> arg, arg_val |-> None]

\* The test of one alias against the token (long: the whole flag part; short:
\* a two-byte alias that ends with the character at hand).
Matches(c, search_flag_name) ==
  IF c.is_long /\ c.arg_flag = search_flag_name THEN "long"
  ELSE IF ~c.is_long /\ Len(search_flag_name) = 2
          /\ search_flag_name[Len(search_flag_name)] = c.ch THEN "short"
  ELSE "none"

\* Mutant of BoolArm: an inline value on a boolean flag is silently ignored.
BoolArmIgnoresValue(st, c, f) ==
  [st EXCEPT !.dest[f] = TRUE, !.brk = TRUE]

\* FlagType::BoolFlag arm
BoolArm(st, c, f) ==
  IF c.arg_val.some
  THEN [st EXCEPT !.err = Some(Err("ExtraValueProvided",
                                   IF ~c.is_long THEN <<"-", c.ch>> ELSE c.arg_flag))]
  ELSE [st EXCEPT !.dest[f] = TRUE, !.brk = TRUE]

\* Mutant of StringArm: a destination that already holds a value keeps it (the
\* first occurrence wins).
StringArmKeepsFirst(st, c, f) ==
  LET owner == IF ~c.is_long THEN Some(c.ch) ELSE st.last
      keep(v) == IF st.dest[f] # <<>> THEN st.dest[f] ELSE v
  IN  IF c.arg_val.some
      THEN [st EXCEPT !.dest[f] = keep(c.arg_val.v), !.last = owner]
      ELSE IF st.args # <<>>
      THEN [st EXCEPT !.dest[f] = keep(Head(st.args)), !.args = Tail(st.args),
                      !.last = owner]
      ELSE [st EXCEPT !.err = Some(Err("NoValueProvided", c.arg_flag))]

\* Mutant of StringArm: the next token is read as the value but left in the
\* iterator (a peek in place of args.next()).
StringArmPeek(st, c, f) ==
  LET owner == IF ~c.is_long THEN Some(c.ch) ELSE st.last
  IN  IF c.arg_val.some
      THEN [st EXCEPT !.dest[f] = c.arg_val.v, !.last = owner]
      ELSE IF st.args # <<>>
      THEN [st EXCEPT !.dest[f] = Head(st.args), !.last = owner]
      ELSE [st EXCEPT !.err = Some(Err("NoValueProvided", c.arg_flag))]

\* Mutant of StringArm: a next token that starts with a dash is not taken as
\* the value; the flag is reported to have none.
StringArmRefusesDash(st, c, f) ==
  LET owner == IF ~c.is_long THEN Some(c.ch) ELSE st.last
  IN  IF c.arg_val.some
      THEN [st EXCEPT !.dest[f] = c.arg_val.v, !.last = owner]
      ELSE IF st.args # <<>> /\ (Head(st.args) = <<>> \/ Head(Head(st.args)) # "-")
      THEN [st EXCEPT !.dest[f] = Head(st.args), !.args = Tail(st.args),
                      !.last = owner]
      ELSE [st EXCEPT !.err = Some(Err("NoValueProvided", c.arg_flag))]

\* FlagType::StringFlag arm
StringArm(st, c, f) ==
  LET owner == IF ~c.is_long THEN Some(c.ch) ELSE st.last
  IN  IF c.arg_val.some
      THEN [st EXCEPT !.dest[f] = c.arg_val.v, !.last = owner]
      ELSE IF st.args # <<>>
      THEN [st EXCEPT !.dest[f] = Head(st.args), !.args = Tail(st.args),
                      !.last = owner]
      ELSE [st EXCEPT !.err = Some(Err("NoValueProvided", c.arg_flag))]

\* Mutant of RepeatArm: an inline value is refused the way the BoolFlag arm
\* refuses it.
RepeatArmRefusesValue(st, c, f) ==
  IF c.arg_val.some
  THEN [st EXCEPT !.err = Some(Err("ExtraValueProvided",
                                   IF c.is_long THEN c.arg_flag ELSE <<"-", c.ch>>))]
  ELSE IF st.dest[f] = UsizeMax THEN [st EXCEPT !.err = Some(Panic)]
  ELSE [st EXCEPT !.dest[f] = @ + 1]

\* Mutant of RepeatArm: the counter is set to one instead of incremented.
RepeatArmSetsOne(st, c, f) ==
  [st EXCEPT !.dest[f] = 1]

\* FlagType::RepeatFlag arm: **value += 1 on a usize, which panics ("attempt
\* to add with overflow") when the counter is at usize::MAX
RepeatArm(st, c, f) ==
  IF st.dest[f] = UsizeMax
  THEN [st EXCEPT !.err = Some(Panic)]
  ELSE [st EXCEPT !.dest[f] = @ + 1]

\* Mutant of ManyArm: the value replaces the vector's contents.
ManyArmOverwrites(st, c, f) ==
  LET owner == IF ~c.is_long THEN Some(c.ch) ELSE st.last
  IN  IF c.arg_val.some
      THEN [st EXCEPT !.dest[f] = <<c.arg_val.v>>, !.last = owner]
      ELSE IF st.args # <<>>
      THEN [st EXCEPT !.dest[f] = <<Head(st.args)>>, !.args = Tail(st.args),
                      !.last = owner]
      ELSE [st EXCEPT !.err = Some(Err("NoValueProvided", c.arg_flag))]

\* Mutant of ManyArm: the next token is pushed as the value but left in the
\* iterator.
ManyArmPeek(st, c, f) ==
  LET owner == IF ~c.is_long THEN Some(c.ch) ELSE st.last
  IN  IF c.arg_val.some
      THEN [st EXCEPT !.dest[f] = Append(@, c.arg_val.v), !.last = owner]
      ELSE IF st.args # <<>>
      THEN [st EXCEPT !.dest[f] = Append(@, Head(st.args)), !.last = owner]
      ELSE [st EXCEPT !.err = Some(Err("NoValueProvided", c.arg_flag))]

\* FlagType::ManyFlag arm
ManyArm(st, c, f) ==
  LET owner == IF ~c.is_long THEN Some(c.ch) ELSE st.last
  IN  IF c.arg_val.some
      THEN [st EXCEPT !.dest[f] = Append(@, c.arg_val.v), !.last = owner]
      ELSE IF st.args # <<>>
      THEN [st EXCEPT !.dest[f] = Append(@, Head(st.args)), !.args = Tail(st.args),
                      !.last = owner]
      ELSE [st EXCEPT !.err = Some(Err("NoValueProvided", c.arg_flag))]

\* match search_flag_kind { ... }
MatchKind(st, c, f) ==
  CASE c.flags[f].kind = "BoolFlag"   -> BoolArm(st, c, f)
    [] c.flags[f].kind = "StringFlag" -> StringArm(st, c, f)
    [] c.flags[f].kind = "RepeatFlag" -> RepeatArm(st, c, f)
    [] c.flags[f].kind = "ManyFlag"   -> ManyArm(st, c, f)

\* Mutant of CombineCheck: the error names the character being matched, not the
\* one that took the value.
CombineCheckNamesLater(st, c, f) ==
  IF st.last.some
  THEN [st EXCEPT !.err = Some(Err("CannotCombine", <<"-", c.ch>>))]
  ELSE MatchKind(st, c, f)

\* "Flags that take a value cannot be combined": the check made on every match,
\* before the kind is looked at.
CombineCheck(st, c, f) ==
  IF st.last.some
  THEN [st EXCEPT !.err = Some(Err("CannotCombine", <<"-", st.last.v>>))]
  ELSE MatchKind(st, c, f)

\* for search_flag_name in search_flag_names { ... }, from the n-th alias on;
\* NamesStep is what follows a match: return the error, break, or go on.
RECURSIVE NamesLoop(_, _, _, _)
NamesStep(st, c, f, n) ==
  IF st.err.some \/ st.brk THEN st
  ELSE NamesLoop(st, c, f, n + 1)

NamesLoop(st, c, f, n) ==
  IF n > Len(c.flags[f].names) THEN st
  ELSE IF Matches(c, c.flags[f].names[n]) = "none" THEN NamesLoop(st, c, f, n + 1)
  ELSE NamesStep(
         CombineCheck(
           [st EXCEPT !.found_long  = (@ \/ Matches(c, c.flags[f].names[n]) = "long"),
                      !.found_short = (@ \/ Matches(c, c.flags[f].names[n]) = "short")],
           c, f),
         c, f, n)

\* for (search_flag_kind, search_flag_names) in flags { ... }, from the f-th on;
\* FlagsStep is what follows one declaration: return the error, or go on.
RECURSIVE FlagsLoop(_, _, _)
FlagsStep(r, c, f) ==
  IF r.err.some THEN r
  ELSE FlagsLoop([r EXCEPT !.brk = FALSE], c, f + 1)

FlagsLoop(st, c, f) ==
  IF f > Len(c.flags) THEN st
  ELSE FlagsStep(NamesLoop(st, c, f, 1), c, f)

\* Mutant of AfterSearch: an unmatched short character is reported with the
\* whole flag part, the way an unmatched long flag is.
AfterSearchNamesToken(r, c) ==
  IF r.found_long THEN [r EXCEPT !.brk = TRUE]
  ELSE IF c.is_long THEN [r EXCEPT !.err = Some(Err("Unknown", c.arg_flag))]
  ELSE IF ~r.found_short THEN [r EXCEPT !.err = Some(Err("Unknown", c.arg_flag))]
  ELSE r

\* Mutant of AfterSearch: a matched short character ends the token the way a
\* matched long flag does.
AfterSearchBreaksOnShort(r, c) ==
  IF r.found_long \/ r.found_short THEN [r EXCEPT !.brk = TRUE]
  ELSE IF c.is_long THEN [r EXCEPT !.err = Some(Err("Unknown", c.arg_flag))]
  ELSE [r EXCEPT !.err = Some(Err("Unknown", <<"-", c.ch>>))]

\* What follows the search for one character: break, Unknown, or go on.
AfterSearch(r, c) ==
  IF r.found_long THEN [r EXCEPT !.brk = TRUE]
  ELSE IF c.is_long THEN [r EXCEPT !.err = Some(Err("Unknown", c.arg_flag))]
  ELSE IF ~r.found_short THEN [r EXCEPT !.err = Some(Err("Unknown", <<"-", c.ch>>))]
  ELSE r

\* for ch in arg_chars { ... }, from the i-th character on; CharStep is what
\* follows one character: return the error, break, or go on.
RECURSIVE CharLoop(_, _, _)

\* Mutant of CharStep: an error does not end the token; the characters after
\* it are parsed too and the error is handed back at the end.
CharStepGoesOn(r, c, i) ==
  IF r.brk THEN r
  ELSE CharLoop(r, c, i + 1)

CharStep(r, c, i) ==
  IF r.err.some \/ r.brk THEN r
  ELSE CharLoop(r, c, i + 1)

CharLoop(st, c, i) ==
  IF i > Len(c.arg_chars) THEN st
  ELSE CharStep(AfterSearch(FlagsLoop([st EXCEPT !.found_short = FALSE],
                                      [c EXCEPT !.ch = c.arg_chars[i]], 1),
                            [c EXCEPT !.ch = c.arg_chars[i]]),
                c, i)

\* What parse_arg hands back once its loop is left: the error, or Ok(true).
Returned(r) ==
  [ret  |-> IF r.err.some THEN r.err.v ELSE Ok(TRUE),
   args |-> r.args, dest |-> r.dest]

\* The token split, and the decision whether it is a long or a short flag.
Classified(sp, table) ==
  [flags |-> table, arg_flag |-> sp.arg_flag, arg_val |-> sp.arg_val,
   is_long |-> Len(sp.arg_flag) >= 2 /\ sp.arg_flag[2] = "-",
   ch |-> "",
   arg_chars |-> SubSeq(sp.arg_flag,
                        IF Len(sp.arg_flag) >= 2 /\ sp.arg_flag[2] = "-" THEN 3 ELSE 2,
                        Len(sp.arg_flag))]

\* Mutant of parse_arg: the test for the leading dash lets an empty flag part
\* through (next() is compared with the characters that are no dash).
parse_argPassesEmpty(arg, iter, table, d) ==
  IF SplitArg(arg).arg_flag # <<>> /\ Head(SplitArg(arg).arg_flag) # "-"
  THEN [ret |-> Ok(FALSE), args |-> iter, dest |-> d]
  ELSE Returned(CharLoop([dest |-> d, args |-> iter, found_long |-> FALSE,
                          found_short |-> FALSE, last |-> None, err |-> None,
                          brk |-> FALSE],
                         Classified(SplitArg(arg), table), 1))

\* parse_arg(arg, args, flags): [ret, args, dest], ret being Ok(TRUE) for a
\* flag, Ok(FALSE) for a token that is no flag, or the error.
parse_arg(arg, iter, table, d) ==
  IF SplitArg(arg).arg_flag = <<>> \/ Head(SplitArg(arg).arg_flag) # "-"
  THEN [ret |-> Ok(FALSE), args |-> iter, dest |-> d]
  ELSE Returned(CharLoop([dest |-> d, args |-> iter, found_long |-> FALSE,
                          found_short |-> FALSE, last |-> None, err |-> None,
                          brk |-> FALSE],
                         Classified(SplitArg(arg), table), 1))

----------------------------------------------------------------------------
(* check_flags: the validation of the table made in debug builds. *)

\* char::is_whitespace, over the characters of the model
IsWhitespace(ch) == ch \in {" ", "\t", "\n"}

StartsWith(s, prefix) ==
  Len(s) >= Len(prefix) /\ SubSeq(s, 1, Len(prefix)) = prefix

\* The three assertions made on one alias.
CheckFlag(flag) ==
  /\ ~ \E i \in 1..Len(flag) : IsWhitespace(flag[i])
  /\ Len(flag) >= 2
  /\ IF Len(flag) > 2 THEN StartsWith(flag, <<"-", "-">>)
                      ELSE StartsWith(flag, <<"-">>)

\* TRUE when no assertion of check_flags fails on the table.
check_flags(table) ==
  \A f \in 1..Len(table) : \A n \in 1..Len(table[f].names) :
    CheckFlag(table[f].names[n])

----------------------------------------------------------------------------
(* The inputs: tables with their destinations, and argument streams. *)

Dash == <<"-">>

DashDash == <<"-", "-">>

\* A table in the order kind-by-kind, short alias first, every destination at
\* its Default::default() as the flags! macro leaves it.
TableA ==
  [flags |-> << Flag("BoolFlag",   << <<"-", "a">>, <<"-", "-", "a", "l", "l">> >>),
                Flag("BoolFlag",   << <<"-", "b">> >>),
                Flag("StringFlag", << <<"-", "s">>, <<"-", "-", "s", "t", "r">> >>),
                Flag("ManyFlag",   << <<"-", "m">>, <<"-", "-", "m", "a", "n", "y">> >>),
                Flag("RepeatFlag", << <<"-", "v">>, <<"-", "-", "v", "e", "r", "b">> >>) >>,
   dest  |-> << FALSE, FALSE, <<>>, <<>>, 0 >>]

\* A table built by hand: long alias first, a StringFlag with a long alias only,
\* a BoolFlag with two short aliases, destinations that already hold values.
TableB ==
  [flags |-> << Flag("ManyFlag",   << <<"-", "-", "m", "a", "n", "y">>, <<"-", "m">> >>),
                Flag("StringFlag", << <<"-", "-", "s", "t", "r">> >>),
                Flag("RepeatFlag", << <<"-", "-", "v", "e", "r", "b">>, <<"-", "v">> >>),
                Flag("BoolFlag",   << <<"-", "b">>, <<"-", "a">> >>),
                Flag("BoolFlag",   << <<"-", "-", "a", "l", "l">> >>) >>,
   dest  |-> << << <<"z">> >>, <<"d">>, 1, FALSE, TRUE >>]

Tables == {TableA, TableB}

\* The tokens argument streams of up to MaxArgs tokens are built from.
StreamTokens ==
  { <<"x">>, Dash, DashDash,
    <<"-", "s">>, <<"-", "-", "s", "t", "r", "=", "y">>,
    <<"-", "-", "m", "a", "n", "y">>, <<"-", "m", "=", "y">>,
    <<"-", "v", "v">>, <<"-", "-", "v", "e", "r", "b">> }

RECURSIVE SeqsUpTo(_, _)
SeqsUpTo(S, n) ==
  IF n = 0 THEN { <<>> }
  ELSE LET shorter == SeqsUpTo(S, n - 1)
       IN  shorter \cup { Append(q, e) : q \in shorter, e \in S }

\* The characters of the generated short clusters: two BoolFlag aliases, a
\* StringFlag, a ManyFlag and a RepeatFlag alias of TableA, and an undeclared one.
ClusterChars == {"a", "b", "s", "m", "v", "q"}

\* The flag parts of the generated tokens: every cluster of 1..MaxCluster
\* characters, the long aliases, undeclared long flags, the bare dashes, and
\* parts that do not start with a dash.
FlagParts ==
  { Dash \o w : w \in SeqsUpTo(ClusterChars, MaxCluster) }
    \cup { DashDash,
           <<"-", "-", "a", "l", "l">>, <<"-", "-", "s", "t", "r">>,
           <<"-", "-", "m", "a", "n", "y">>, <<"-", "-", "v", "e", "r", "b">>,
           <<"-", "-", "n", "o", "p", "e">>, <<"-", "-", "-">>,
           <<>>, <<"x">> }

\* What follows the flag part: nothing, an empty inline value, an inline value
\* that itself holds a '='.
Suffixes == { <<>>, <<"=">>, <<"=", "k", "=", "v">> }

GenTokens == { p \o x : p \in FlagParts, x \in Suffixes }

\* What follows a generated token in the stream.
Tails == { <<>>, << <<"-", "b">>, <<"w">> >> }

\* Tokens that are no flags: a word, the empty string, a word with a '='.
PositionalTokens == { <<"x">>, <<>>, <<"w", "=", "1">> }

Inputs ==
  SeqsUpTo(StreamTokens, MaxArgs)
    \cup { <<t>> \o tl : t \in GenTokens, tl \in Tails }
    \cup SeqsUpTo(PositionalTokens, MaxArgs)

----------------------------------------------------------------------------
(* The entry points. *)

\* common.rs as the process starts: nothing cached, no call made; the parser
\* reads none of it.
CommonUntouched ==
  /\ UNDERLINE_SUPPORTED = None
  /\ UNDERLINE_SUPPORTED_INIT = FALSE
  /\ USE_COLORS = None
  /\ env = [TERMINAL |-> None, TERM |-> None, NO_COLOR |-> None,
            stdout_tty |-> TRUE, stderr_tty |-> TRUE]
  /\ called = [fn |-> "none", ret |-> FALSE]
  /\ probed = None
  /\ overwritten = None

\* The pure functions of common.rs and colors.rs have not been called; the
\* parser calls none of them.
PureUntouched ==
  /\ windows = FALSE
  /\ mock_colors = FALSE
  /\ path = <<>>
  /\ name = None
  /\ color = [kind |-> "None"]
  /\ method = "none"
  /\ printed = None

\* One record of the history: the token pulled, how the loop treated it
\* ("terminator", "ignored", "dash" or "parsed"), what parse_arg returned (None
\* when it was not called), and the iterator, the destinations and the
\* positionals as they were when the token had just been pulled.
Step(arg, how, ret) ==
  [arg |-> arg, how |-> how, ret |-> ret, rest |-> Tail(args), dest |-> dest,
   parsed |-> parsed_arguments]

Init ==
  /\ \E t \in Tables : flags = t.flags /\ dest = t.dest /\ dest0 = t.dest
  /\ \E inp \in Inputs : args = inp /\ args0 = inp
  /\ pc = "idle"
  /\ parsed_arguments = <<>>
  /\ ignore_rest = FALSE
  /\ result = None
  /\ fn = "none"
  /\ trace = <<>>
  /\ sub = None
  /\ CommonUntouched
  /\ PureUntouched

\* A call is made on a fresh program, or on the iterator a successful
\* parse_flags_until_subcommand has left; the second call is given the same
\* table (the destinations as the first call left them) or another table.
CanCall ==
  \/ pc = "idle"
  \/ pc = "returned" /\ fn = "parse_flags_until_subcommand" /\ result.ok

\* parse_flags is called: check_flags, then the two locals.
ParseFlagsCall ==
  /\ CanCall
  /\ \/ UNCHANGED <<flags, dest>>
     \/ /\ pc = "returned"
        /\ \E t \in Tables : t.flags # flags /\ flags' = t.flags /\ dest' = t.dest
  /\ pc' = IF check_flags(flags') THEN "parse_flags" ELSE "panicked"
  /\ fn' = "parse_flags"
  /\ parsed_arguments' = <<>>
  /\ ignore_rest' = FALSE
  /\ args0' = args
  /\ dest0' = dest'
  /\ trace' = <<>>
  /\ sub' = IF pc = "returned"
            THEN Some([flags |-> flags, args0 |-> args0, val |-> result.val])
            ELSE sub
  /\ result' = None
  /\ UNCHANGED args
  /\ UNCHANGED <<commonVars, pureVars>>

\* if arg == "--": the token that turns ignore_rest on
IsTerminator(arg) == arg = DashDash

\* Mutant of SkipsParse: once a positional has been seen, every token is one
\* (the parser stops looking for flags at the first positional).
SkipsParseAfterPositional(ign, arg) ==
  ign \/ arg = Dash \/ parsed_arguments # <<>>

\* Mutant of SkipsParse: a bare - is handed to parse_arg like any other token.
SkipsParseForgetsDash(ign, arg) == ign

\* Mutant of SkipsParse: ignore_rest is not looked at.
SkipsParseForgetsIgnoreRest(ign, arg) == arg = Dash

\* ignore_rest || arg == "-": the operands that keep parse_arg from being called
SkipsParse(ign, arg) == ign \/ arg = Dash

\* Mutant of IsBareDashes: only the bare - is kept from parse_arg, -- is parsed
\* like any token that starts with two dashes.
IsBareDashesDashOnly(arg) == arg = Dash

\* arg == "-" || arg == "--": the same for parse_flags_until_subcommand
IsBareDashes(arg) == arg = Dash \/ arg = DashDash

\* The body of parse_flags's while loop for the token arg, r being what
\* parse_arg returns for it (looked at only when parse_arg is called).
ParseFlagsBody(arg, r) ==
  IF IsTerminator(arg)
  THEN /\ ignore_rest' = TRUE
       /\ args' = Tail(args)
       /\ trace' = Append(trace, Step(arg, "terminator", None))
       /\ UNCHANGED <<dest, parsed_arguments, pc, result>>
  ELSE IF SkipsParse(ignore_rest, arg)
  THEN /\ parsed_arguments' = Append(parsed_arguments, arg)
       /\ args' = Tail(args)
       /\ trace' = Append(trace,
                          Step(arg, IF ignore_rest THEN "ignored" ELSE "dash", None))
       /\ UNCHANGED <<dest, ignore_rest, pc, result>>
  ELSE /\ trace' = Append(trace, Step(arg, "parsed", Some(r.ret)))
       /\ args' = r.args
       /\ dest' = r.dest
       /\ IF r.ret.ok
          THEN /\ parsed_arguments' = IF r.ret.val THEN parsed_arguments
                                      ELSE Append(parsed_arguments, arg)
               /\ UNCHANGED <<pc, result>>
          ELSE IF r.ret = Panic
          THEN /\ pc' = "panicked"
               /\ UNCHANGED <<parsed_arguments, result>>
          ELSE /\ result' = r.ret
               /\ pc' = "returned"
               /\ UNCHANGED parsed_arguments
       /\ UNCHANGED ignore_rest

\* One iteration of parse_flags's while loop.
ParseFlagsLoop ==
  /\ pc = "parse_flags"
  /\ args # <<>>
  /\ ParseFlagsBody(Head(args), parse_arg(Head(args), Tail(args), flags, dest))
  /\ UNCHANGED <<flags, fn, args0, dest0, sub>>
  /\ UNCHANGED <<commonVars, pureVars>>

\* The iterator is exhausted: Ok(parsed_arguments).
ParseFlagsReturn ==
  /\ pc = "parse_flags"
  /\ args = <<>>
  /\ result' = Ok(parsed_arguments)
  /\ pc' = "returned"
  /\ UNCHANGED <<flags, dest, args, parsed_arguments, ignore_rest, fn, args0,
                 dest0, trace, sub>>
  /\ UNCHANGED <<commonVars, pureVars>>

\* parse_flags_until_subcommand is called: check_flags.
UntilSubcommandCall ==
  /\ pc = "idle"
  /\ pc' = IF check_flags(flags) THEN "until_subcommand" ELSE "panicked"
  /\ fn' = "parse_flags_until_subcommand"
  /\ args0' = args
  /\ dest0' = dest
  /\ trace' = <<>>
  /\ UNCHANGED <<flags, dest, args, parsed_arguments, ignore_rest, result, sub>>
  /\ UNCHANGED <<commonVars, pureVars>>

\* Mutant of UntilSubcommandBody: the positional is looked at and returned but
\* left in the iterator (a peek where the code calls next).
UntilSubcommandBodyPeeks(arg, r) ==
  IF IsBareDashes(arg)
  THEN /\ result' = Ok(arg)
       /\ pc' = "returned"
       /\ args' = args
       /\ trace' = Append(trace, Step(arg, "dash", None))
       /\ UNCHANGED dest
  ELSE /\ trace' = Append(trace, Step(arg, "parsed", Some(r.ret)))
       /\ args' = IF r.ret = Ok(FALSE) THEN args ELSE r.args
       /\ dest' = r.dest
       /\ IF r.ret.ok
          THEN IF r.ret.val
               THEN UNCHANGED <<pc, result>>
               ELSE result' = Ok(arg) /\ pc' = "returned"
          ELSE IF r.ret = Panic
          THEN pc' = "panicked" /\ UNCHANGED result
          ELSE result' = r.ret /\ pc' = "returned"

\* The body of parse_flags_until_subcommand's while loop for the token arg, r
\* being what parse_arg returns for it (looked at only when it is called).
UntilSubcommandBody(arg, r) ==
  IF IsBareDashes(arg)
  THEN /\ result' = Ok(arg)
       /\ pc' = "returned"
       /\ args' = Tail(args)
       /\ trace' = Append(trace, Step(arg, "dash", None))
       /\ UNCHANGED dest
  ELSE /\ trace' = Append(trace, Step(arg, "parsed", Some(r.ret)))
       /\ args' = r.args
       /\ dest' = r.dest
       /\ IF r.ret.ok
          THEN IF r.ret.val
               THEN UNCHANGED <<pc, result>>
               ELSE result' = Ok(arg) /\ pc' = "returned"
          ELSE IF r.ret = Panic
          THEN pc' = "panicked" /\ UNCHANGED result
          ELSE result' = r.ret /\ pc' = "returned"

\* One iteration of parse_flags_until_subcommand's while loop.
UntilSubcommandLoop ==
  /\ pc = "until_subcommand"
  /\ args # <<>>
  /\ UntilSubcommandBody(Head(args), parse_arg(Head(args), Tail(args), flags, dest))
  /\ UNCHANGED <<flags, parsed_arguments, ignore_rest, fn, args0, dest0, sub>>
  /\ UNCHANGED <<commonVars, pureVars>>

\* Mutant of UntilSubcommandReturn: the token pulled last is returned where
\* the code builds the empty string.
UntilSubcommandReturnsLastToken ==
  /\ pc = "until_subcommand"
  /\ args = <<>>
  /\ result' = Ok(IF trace = <<>> THEN <<>> ELSE trace[Len(trace)].arg)
  /\ pc' = "returned"
  /\ UNCHANGED <<flags, dest, args, parsed_arguments, ignore_rest, fn, args0,
                 dest0, trace, sub>>
  /\ UNCHANGED <<commonVars, pureVars>>

\* The iterator is exhausted: Ok("").
UntilSubcommandReturn ==
  /\ pc = "until_subcommand"
  /\ args = <<>>
  /\ result' = Ok(<<>>)
  /\ pc' = "returned"
  /\ UNCHANGED <<flags, dest, args, parsed_arguments, ignore_rest, fn, args0,
                 dest0, trace, sub>>
  /\ UNCHANGED <<commonVars, pureVars>>

Next ==
  \/ ParseFlagsCall
  \/ ParseFlagsLoop
  \/ ParseFlagsReturn
  \/ UntilSubcommandCall
  \/ UntilSubcommandLoop
  \/ UntilSubcommandReturn

Spec == Init /\ [][Next]_vars

----------------------------------------------------------------------------
(* The same entry points on tables a caller can also build: aliases of every *)
(* shape check_flags looks at, and counters next to usize::MAX.              *)

\* Aliases: two well-formed ones, then the empty alias, one character, two and
\* three characters without a dash, a word behind one dash, whitespace in a
\* short and in a long alias, three dashes, and two dashes alone.
AliasPool ==
  { <<"-", "a">>, <<"-", "-", "a", "l", "l">>,
    <<>>, <<"a">>, Dash, <<"a", "b">>, <<"a", "l", "l">>, <<"-", "a", "b">>,
    <<"-", " ">>, <<"-", "-", "a", " ", "b">>,
    <<"-", "-", "-", "x">>, DashDash }

\* One declaration with one alias of the pool, and two declarations with the
\* alias of the pool the last one looked at.
AliasTables ==
  { [flags |-> << Flag("BoolFlag", <<n>>) >>, dest |-> << FALSE >>] : n \in AliasPool }
    \cup { [flags |-> << Flag("BoolFlag", << <<"-", "b">> >>),
                         Flag("RepeatFlag", << <<"-", "-", "v", "e", "r", "b">>, n >>) >>,
            dest  |-> << FALSE, 0 >>] : n \in AliasPool }

\* A RepeatFlag whose counter the caller hands over at, or one below, usize::MAX.
CounterTables ==
  { [flags |-> << Flag("RepeatFlag", << <<"-", "v">>, <<"-", "-", "v", "e", "r", "b">> >>) >>,
     dest  |-> << n >>] : n \in {UsizeMax - 1, UsizeMax} }

TableInputs ==
  SeqsUpTo({ <<"x">>, <<"-", "a">>, <<"-", "v", "v">>, <<"-", "-", "v", "e", "r", "b">>,
             <<"-", "-", "-", "x">>, <<"-", "b", "-">> }, 2)

InitTables ==
  /\ \E t \in AliasTables \cup CounterTables :
       flags = t.flags /\ dest = t.dest /\ dest0 = t.dest
  /\ \E inp \in TableInputs : args = inp /\ args0 = inp
  /\ pc = "idle"
  /\ parsed_arguments = <<>>
  /\ ignore_rest = FALSE
  /\ result = None
  /\ fn = "none"
  /\ trace = <<>>
  /\ sub = None
  /\ CommonUntouched
  /\ PureUntouched

SpecTables == InitTables /\ [][Next]_vars

----------------------------------------------------------------------------
(* common.rs: the two probes of the environment and their caches.  Calls are *)
(* made one after the other (the statics are not synchronised); between two  *)
(* calls the environment may change.                                        *)

SUPPORTED_TERMINALS ==
  { <<"v", "t", "e">>, <<"k", "i", "t", "t", "y">>, <<"m", "i", "n", "t", "t", "y">>,
    <<"i", "t", "e", "r", "m", "2">>, <<"a", "l", "a", "c", "r", "i", "t", "t", "y">> }

SUPPORTED_TERMS ==
  { <<"x", "t", "e", "r", "m", "-", "g", "h", "o", "s", "t", "t", "y">> }

\* str::contains
Contains(s, t) ==
  \E i \in 1..(Len(s) - Len(t) + 1) : SubSeq(s, i, i + Len(t) - 1) = t

\* is_supported, as is_underline_style_supported computes it from $TERMINAL
\* and $TERM
IsSupported(e) ==
  \/ e.TERMINAL.some /\ \E t \in SUPPORTED_TERMINALS : Contains(e.TERMINAL.v, t)
  \/ e.TERM.some /\ \E t \in SUPPORTED_TERMS : Contains(e.TERM.v, t)

\* should_use_colors, as the function of that name computes it: both streams
\* are terminals, $NO_COLOR is not set and $TERM is not "dumb"
ShouldUseColorsValue(e) ==
  /\ e.stderr_tty /\ e.stdout_tty
  /\ ~(e.NO_COLOR.some \/ e.TERM = Some(<<"d", "u", "m", "b">>))

\* The environments: $TERMINAL unset, a supported and an unsupported terminal;
\* $TERM unset, dumb and a supported one; $NO_COLOR unset and set; each of
\* stdout and stderr a terminal or not.
Envs ==
  [TERMINAL   : {None, Some(<<"/", "k", "i", "t", "t", "y">>), Some(<<"s", "t">>)},
   TERM       : {None, Some(<<"d", "u", "m", "b">>),
                 Some(<<"x", "t", "e", "r", "m", "-", "g", "h", "o", "s", "t", "t", "y">>)},
   NO_COLOR   : {None, Some(<<>>)},
   stdout_tty : BOOLEAN,
   stderr_tty : BOOLEAN]

\* the parser is not running
FlagsIdle ==
  /\ flags = <<>> /\ dest = <<>> /\ dest0 = <<>>
  /\ args = <<>> /\ args0 = <<>>
  /\ pc = "idle"
  /\ parsed_arguments = <<>>
  /\ ignore_rest = FALSE
  /\ result = None
  /\ fn = "none"
  /\ trace = <<>>
  /\ sub = None

InitCommon ==
  /\ FlagsIdle
  /\ UNDERLINE_SUPPORTED = None
  /\ UNDERLINE_SUPPORTED_INIT = FALSE
  /\ USE_COLORS = None
  /\ env \in Envs
  /\ called = [fn |-> "none", ret |-> FALSE]
  /\ probed = None
  /\ overwritten = None
  /\ PureUntouched

\* Mutant of Cached: the cache is not looked at, the value is computed anew.
CachedIgnored(cache, computed) == computed

\* if let Some(value) = CACHE { value } else { ...; computed }
Cached(cache, computed) == IF cache.some THEN cache.v ELSE computed

\* is_underline_style_supported(): the cached value, or the value computed
\* from the environment, stored by UNDERLINE_SUPPORTED_INIT.call_once when
\* that Once has not completed yet.
IsUnderlineStyleSupported ==
  /\ called' = [fn  |-> "is_underline_style_supported",
                ret |-> Cached(UNDERLINE_SUPPORTED, IsSupported(env))]
  /\ IF ~UNDERLINE_SUPPORTED.some /\ ~UNDERLINE_SUPPORTED_INIT
     THEN /\ UNDERLINE_SUPPORTED' = Some(IsSupported(env))
          /\ UNDERLINE_SUPPORTED_INIT' = TRUE
     ELSE UNCHANGED <<UNDERLINE_SUPPORTED, UNDERLINE_SUPPORTED_INIT>>
  /\ probed' = IF probed.some THEN probed ELSE Some(called'.ret)
  /\ UNCHANGED <<USE_COLORS, env, overwritten>>
  /\ UNCHANGED <<flagsVars, pureVars>>

\* should_use_colors(): the cached value, or the value computed from the
\* environment, stored by call_once on the same Once, UNDERLINE_SUPPORTED_INIT
\* (USE_COLORS_INIT is declared and never used), when it has not completed yet.
ShouldUseColors ==
  /\ called' = [fn  |-> "should_use_colors",
                ret |-> Cached(USE_COLORS, ShouldUseColorsValue(env))]
  /\ IF ~USE_COLORS.some /\ ~UNDERLINE_SUPPORTED_INIT
     THEN /\ USE_COLORS' = Some(ShouldUseColorsValue(env))
          /\ UNDERLINE_SUPPORTED_INIT' = TRUE
     ELSE UNCHANGED <<USE_COLORS, UNDERLINE_SUPPORTED_INIT>>
  /\ UNCHANGED <<UNDERLINE_SUPPORTED, env, probed, overwritten>>
  /\ UNCHANGED <<flagsVars, pureVars>>

\* overwrite_should_use_colors(value)
OverwriteShouldUseColors ==
  \E value \in BOOLEAN :
    /\ USE_COLORS' = Some(value)
    /\ overwritten' = Some(value)
    /\ called' = [fn |-> "overwrite_should_use_colors", ret |-> FALSE]
    /\ UNCHANGED <<UNDERLINE_SUPPORTED, UNDERLINE_SUPPORTED_INIT, env, probed>>
    /\ UNCHANGED <<flagsVars, pureVars>>

\* Between two calls one variable of the environment is set or removed, or a
\* stream is redirected.
SetEnv ==
  /\ \E e \in Envs :
       /\ Cardinality({ k \in DOMAIN env : e[k] # env[k] }) = 1
       /\ env' = e
  /\ UNCHANGED <<UNDERLINE_SUPPORTED, UNDERLINE_SUPPORTED_INIT, USE_COLORS,
                 called, probed, overwritten>>
  /\ UNCHANGED <<flagsVars, pureVars>>

NextCommon ==
  \/ IsUnderlineStyleSupported
  \/ ShouldUseColors
  \/ OverwriteShouldUseColors
  \/ SetEnv

SpecCommon == InitCommon /\ [][NextCommon]_vars

----------------------------------------------------------------------------
(* common.rs: name_from_path.  A String is UTF-8: chars() walks characters,  *)
(* len() and split_at count bytes.                                           *)

\* longest path drawn
MaxPath == 3

\* The characters paths are drawn from: ASCII letters, the two separators, a
\* two-byte character (U+00E9) and a three-byte one (U+20AC).
PathChars == {"a", ".", "/", "\\", "U+00E9", "U+20AC"}

\* char::len_utf8
len_utf8(c) == CASE c = "U+00E9" -> 2 [] c = "U+20AC" -> 3 [] OTHER -> 1

\* String::len: the length in bytes
RECURSIVE len(_)
len(s) == IF s = <<>> THEN 0 ELSE len_utf8(Head(s)) + len(Tail(s))

\* const DIR_CHARS
DIR_CHARS(win) == IF win THEN {"\\", "/"} ELSE {"/"}

\* str::split_at(mid): the two halves, a panic when the byte offset mid is not
\* on a character boundary
split_at(s, mid) ==
  LET cuts == {k \in 0..Len(s) : len(SubSeq(s, 1, k)) = mid}
  IN  IF cuts = {} THEN Panic
      ELSE LET k == CHOOSE k \in cuts : TRUE
           IN  Ok(<<SubSeq(s, 1, k), SubSeq(s, k + 1, Len(s))>>)

\* for (i, c) in path.chars().rev().enumerate(): i counts characters from the
\* end; the first separator met returns path.split_at(path.len() - i).1
name_from_path(p, win) ==
  LET hits == {i \in 0..(Len(p) - 1) : p[Len(p) - i] \in DIR_CHARS(win)}
  IN  IF hits = {} THEN Ok(p)
      ELSE LET i == CHOOSE i \in hits : \A j \in hits : i <= j
               halves == split_at(p, len(p) - i)
           IN  IF halves.ok THEN Ok(halves.val[2]) ELSE Panic

InitPath ==
  /\ FlagsIdle
  /\ CommonUntouched
  /\ windows \in BOOLEAN
  /\ mock_colors = FALSE
  /\ path \in SeqsUpTo(PathChars, MaxPath)
  /\ name = None
  /\ color = [kind |-> "None"]
  /\ method = "none"
  /\ printed = None

\* the call name_from_path(&path)
NameFromPath ==
  /\ name = None
  /\ name' = Some(name_from_path(path, windows))
  /\ UNCHANGED <<flagsVars, commonVars, windows, mock_colors, path, color,
                 method, printed>>

NextPath == NameFromPath

SpecPath == InitPath /\ [][NextPath]_vars

----------------------------------------------------------------------------
(* colors.rs: Color and the methods of PrintableColor.  A Color is a record  *)
(* [kind] for a unit variant, [kind |-> "Byte", n] or [kind |-> "RGB", r, g, *)
(* b].  u8 arithmetic is modulo 2^8.                                         *)

\* enum Color: the unit variants other than None in discriminant order, so
\* that NamedColors[k] has the discriminant k - 1
NamedColors ==
  <<"Black", "Red", "Green", "Yellow", "Blue", "Purple", "Cyan", "White",
    "BrightBlack", "BrightRed", "BrightGreen", "BrightYellow", "BrightBlue",
    "BrightPurple", "BrightCyan", "BrightWhite">>

U8 == 0..255

\* the channel values RGB colours are drawn from: the ends of the range and
\* the two sides of the first step of r * 6 / 256
Channels == {0, 42, 43, 255}

Colors ==
  {[kind |-> "None"]}
    \cup {[kind |-> NamedColors[k]] : k \in 1..Len(NamedColors)}
    \cup {[kind |-> "Byte", n |-> n] : n \in U8}
    \cup {[kind |-> "RGB", r |-> r, g |-> g, b |-> b] :
            r \in Channels, g \in Channels, b \in Channels}

\* pub fn rgb_to_byte: computed in u32, then `as u8`
rgb_to_byte(r, g, b) ==
  (16 + ((r * 6) \div 256) * 36 + ((g * 6) \div 256) * 6 + ((b * 6) \div 256)) % 256

\* impl From<Color> for u8
u8_from(value) ==
  CASE value.kind = "None" -> Panic
    [] value.kind = "Byte" -> Ok(value.n)
    [] value.kind = "RGB"  -> Ok(rgb_to_byte(value.r, value.g, value.b))
    [] OTHER -> Ok((CHOOSE k \in 1..Len(NamedColors) : NamedColors[k] = value.kind) - 1)

\* PrintableColor::byte for Color; the arms of `match color` are tried in the
\* order they are written
byte(self) ==
  CASE self.kind = "Byte" -> Ok(self.n)
    [] self.kind = "RGB"  -> Ok(rgb_to_byte(self.r, self.g, self.b))
    [] OTHER ->
         LET c == u8_from(self)
         IN  IF ~c.ok THEN Panic
             ELSE IF c.val = 9 THEN Ok(0)
             ELSE IF c.val \in 0..7 THEN Ok(c.val)
             ELSE IF c.val \in 60..67 THEN Ok((c.val - 52) % 256)
             ELSE Panic

Digit(d) == CASE d = 0 -> "0" [] d = 1 -> "1" [] d = 2 -> "2" [] d = 3 -> "3"
              [] d = 4 -> "4" [] d = 5 -> "5" [] d = 6 -> "6" [] d = 7 -> "7"
              [] d = 8 -> "8" [] d = 9 -> "9"

\* format!("{}", n) of a u8
RECURSIVE Decimal(_)
Decimal(n) == IF n < 10 THEN <<Digit(n)>> ELSE Decimal(n \div 10) \o <<Digit(n % 10)>>

\* Color::ul_code
ul_code(self) ==
  CASE self.kind = "None" -> Ok(<<>>)
    [] self.kind = "Byte" -> Ok(<<"5", "8", ";", "5", ";">> \o Decimal(self.n))
    [] self.kind = "RGB"  ->
         Ok(<<"5", "8", ";", "2", ";">> \o Decimal(self.r) \o <<";">>
              \o Decimal(self.g) \o <<";">> \o Decimal(self.b))
    [] OTHER ->
         LET b == byte(self)
         IN  IF b.ok THEN Ok(<<"5", "8", ";", "5", ";">> \o Decimal(b.val)) ELSE Panic

\* fn esc_sq; "ESC" is the character U+001B
esc_sq(code, mock) ==
  IF Len(code) # 0
  THEN IF mock
       THEN <<"{", "c", "o", "l", "o", "r", " ", "c", "o", "d", "e", " ">> \o code \o <<"}">>
       ELSE <<"ESC", "[">> \o code \o <<"m">>
  ELSE <<>>

\* PrintableColor::underline for Color
underline(self, mock) ==
  LET code == ul_code(self)
  IN  IF code.ok THEN Ok(esc_sq(code.val, mock)) ELSE Panic

InitColors ==
  /\ FlagsIdle
  /\ CommonUntouched
  /\ windows = FALSE
  /\ mock_colors \in BOOLEAN
  /\ path = <<>>
  /\ name = None
  /\ color \in Colors
  /\ method = "none"
  /\ printed = None

\* the call color.byte()
Byte ==
  /\ method = "none"
  /\ method' = "byte"
  /\ printed' = Some(byte(color))
  /\ UNCHANGED <<flagsVars, commonVars, windows, mock_colors, path, name, color>>

\* the call color.underline()
Underline ==
  /\ method = "none"
  /\ method' = "underline"
  /\ printed' = Some(underline(color, mock_colors))
  /\ UNCHANGED <<flagsVars, commonVars, windows, mock_colors, path, name, color>>

NextColors ==
  \/ Byte
  \/ Underline

SpecColors == InitColors /\ [][NextColors]_vars

----------------------------------------------------------------------------
(* Tables whose declarations share an alias.  check_flags looks at each      *)
(* alias alone, so such a table passes it.                                   *)

\* what a fresh destination of a kind holds: false, String::new(), vec![], 0
FreshDest(kind) ==
  CASE kind = "BoolFlag"   -> FALSE
    [] kind = "StringFlag" -> <<>>
    [] kind = "ManyFlag"   -> <<>>
    [] kind = "RepeatFlag" -> 0

\* Two declarations of any two kinds with one alias, short or long, in common.
SharedTables ==
  { [flags |-> << Flag(k1, <<n>>), Flag(k2, <<n>>) >>,
     dest  |-> << FreshDest(k1), FreshDest(k2) >>] :
      k1 \in FlagType, k2 \in FlagType,
      n \in { <<"-", "s">>, <<"-", "-", "s", "t", "r">> } }

SharedInputs ==
  SeqsUpTo({ <<"w">>, <<"-", "s">>, <<"-", "-", "s", "t", "r">>,
             <<"-", "s", "=", "y">>, <<"-", "-", "s", "t", "r", "=", "y">> }, 2)

InitShared ==
  /\ \E t \in SharedTables : flags = t.flags /\ dest = t.dest /\ dest0 = t.dest
  /\ \E inp \in SharedInputs : args = inp /\ args0 = inp
  /\ pc = "idle"
  /\ parsed_arguments = <<>>
  /\ ignore_rest = FALSE
  /\ result = None
  /\ fn = "none"
  /\ trace = <<>>
  /\ sub = None
  /\ CommonUntouched
  /\ PureUntouched

SpecShared == InitShared /\ [][Next]_vars

----------------------------------------------------------------------------
(* Vocabulary of the properties: how a token reads against the table, stated *)
(* without the parser.                                                       *)

\* the record of the loop iteration made last in the current call
Last == trace[Len(trace)]

\* a token has just been handed to parse_arg (and nothing but a return followed)
JustParsed == trace # <<>> /\ Last.how = "parsed"

Aliases(f) == { flags[f].names[n] : n \in 1..Len(flags[f].names) }

Declared(alias) == \E f \in 1..Len(flags) : alias \in Aliases(f)

\* the declaration an alias belongs to
DeclOf(alias) == CHOOSE f \in 1..Len(flags) : alias \in Aliases(f)

KindOf(alias) == IF Declared(alias) THEN flags[DeclOf(alias)].kind ELSE "none"

Short(ch) == <<"-", ch>>

HasInline(tok) == \E i \in 1..Len(tok) : tok[i] = "="

\* the part of a token before its first '=' (the whole token when it has none)
FlagPartOf(tok) ==
  SubSeq(tok, 1, CHOOSE k \in 0..Len(tok) :
                   /\ \A i \in 1..k : tok[i] # "="
                   /\ (k = Len(tok) \/ tok[k + 1] = "="))

\* the part of a token after its first '='
InlineOf(tok) == SubSeq(tok, Len(FlagPartOf(tok)) + 2, Len(tok))

\* one dash, then at least one character, the first of them no dash
IsCluster(part) == Len(part) >= 2 /\ part[1] = "-" /\ part[2] # "-"

\* two dashes and more
IsLongForm(part) == Len(part) > 2 /\ part[1] = "-" /\ part[2] = "-"

ValueKinds == {"StringFlag", "ManyFlag"}

\* The characters before position i of a cluster are parsed without an error and
\* without taking a value: each is a declared RepeatFlag, or a declared BoolFlag
\* in a token with no inline value.
PassesBefore(chars, i, inline) ==
  \A j \in 1..(i - 1) :
    \/ KindOf(Short(chars[j])) = "RepeatFlag"
    \/ KindOf(Short(chars[j])) = "BoolFlag" /\ ~inline

\* The tokens whose value-taking flag of one of the kinds is reached: a long
\* alias of such a flag, or a cluster whose characters pass up to it.  The
\* result is the set of the declarations reached (one at most).
Reached(tok, kinds) ==
  LET part == FlagPartOf(tok)
  IN  { f \in 1..Len(flags) :
          /\ flags[f].kind \in kinds
          /\ \/ IsLongForm(part) /\ part \in Aliases(f)
             \/ /\ IsCluster(part)
                /\ \E i \in 1..(Len(part) - 1) :
                     /\ Short(Tail(part)[i]) \in Aliases(f)
                     /\ PassesBefore(Tail(part), i, HasInline(tok)) }

----------------------------------------------------------------------------
(* C1 *)

\* C1: a StringFlag token without inline value takes exactly the next token of
\* the stream as its value: the destination equals that token, the iterator is
\* advanced by exactly that one token, which is not pushed to the positionals;
\* when the stream is exhausted the call returns NoValueProvided naming the flag
\* as typed.
C1_StringFlagTakesNextToken ==
  JustParsed /\ ~HasInline(Last.arg) =>
    \A f \in Reached(Last.arg, {"StringFlag"}) :
      IF Last.rest = <<>>
      THEN /\ pc = "returned"
           /\ result = Err("NoValueProvided", Last.arg)
           /\ dest[f] = Last.dest[f]
      ELSE /\ dest[f] = Head(Last.rest)
           /\ args = Tail(Last.rest)
           /\ parsed_arguments = Last.parsed

\* C1 witness: parse_flags has parsed `-s` with a token behind it, which is now
\* the destination's value and gone from the iterator.
C1_Witness ==
  /\ fn = "parse_flags"
  /\ JustParsed
  /\ Last.arg = <<"-", "s">>
  /\ Last.rest # <<>>
  /\ 3 \in Reached(Last.arg, {"StringFlag"})
  /\ dest[3] = Head(Last.rest)
  /\ Last.dest[3] # Head(Last.rest)
  /\ args = Tail(Last.rest)

----------------------------------------------------------------------------
(* C2 *)

\* a token without '=' made of one dash and short aliases of declared BoolFlags
BoolCluster(tok) ==
  /\ ~HasInline(tok)
  /\ IsCluster(tok)
  /\ \A i \in 1..Len(Tail(tok)) : KindOf(Short(Tail(tok)[i])) = "BoolFlag"

\* C2: short-flag bundling: a token -c1c2...cn without '=' whose characters are
\* all short aliases of declared BoolFlags is a flag, sets the destination of
\* each of those flags to true, leaves every other destination as it was, adds
\* no positional and pulls no token from the iterator.
C2_ShortFlagBundling ==
  JustParsed /\ BoolCluster(Last.arg) =>
    /\ Last.ret = Some(Ok(TRUE))
    /\ \A f \in 1..Len(flags) :
         IF \E i \in 1..Len(Tail(Last.arg)) : Short(Tail(Last.arg)[i]) \in Aliases(f)
         THEN dest[f] = TRUE
         ELSE dest[f] = Last.dest[f]
    /\ parsed_arguments = Last.parsed
    /\ args = Last.rest

\* C2 witness: parse_flags has parsed `-ab` against two separately declared
\* BoolFlags that were both false, with a token left behind it.
C2_Witness ==
  /\ fn = "parse_flags"
  /\ JustParsed
  /\ Last.arg = <<"-", "a", "b">>
  /\ BoolCluster(Last.arg)
  /\ DeclOf(Short("a")) # DeclOf(Short("b"))
  /\ ~Last.dest[DeclOf(Short("a"))] /\ ~Last.dest[DeclOf(Short("b"))]
  /\ dest[DeclOf(Short("a"))] /\ dest[DeclOf(Short("b"))]
  /\ Last.rest # <<>>

----------------------------------------------------------------------------
(* C3 *)

\* C3: illegal combination: when a character c of a short cluster is a
\* StringFlag or ManyFlag that has taken its value (inline, or the next token)
\* and the character after it is a declared short alias of any kind, the call
\* returns CannotCombine naming -c, the value-owning character.
C3_CannotCombineNamesOwner ==
  JustParsed /\ IsCluster(FlagPartOf(Last.arg)) =>
    LET chars  == Tail(FlagPartOf(Last.arg))
        inline == HasInline(Last.arg)
    IN  \A i \in 1..(Len(chars) - 1) :
          ( /\ KindOf(Short(chars[i])) \in ValueKinds
            /\ PassesBefore(chars, i, inline)
            /\ (inline \/ Last.rest # <<>>)
            /\ Declared(Short(chars[i + 1])) )
          => /\ pc = "returned"
             /\ result = Err("CannotCombine", Short(chars[i]))

\* C3 witness: `-sa` with a token behind it, -s a StringFlag and -a a BoolFlag:
\* CannotCombine naming -s.
C3_Witness ==
  /\ JustParsed
  /\ Last.arg = <<"-", "s", "a">>
  /\ KindOf(Short("s")) = "StringFlag"
  /\ KindOf(Short("a")) = "BoolFlag"
  /\ Last.rest # <<>>
  /\ result = Err("CannotCombine", <<"-", "s">>)

----------------------------------------------------------------------------
(* C4 *)

\* C4: inline value: for a token flag=value whose flag part is an alias (long,
\* or a single short) of a StringFlag or ManyFlag, the value is everything after
\* the first '=' (it may hold a '=' and may be empty); it becomes the flag's
\* value, and the next token of the stream is not pulled as a value: it is
\* still the head of the iterator, for the loop to classify.
C4_InlineValue ==
  JustParsed /\ HasInline(Last.arg) =>
    \A f \in 1..Len(flags) :
      flags[f].kind \in ValueKinds /\ FlagPartOf(Last.arg) \in Aliases(f) =>
        /\ Last.ret = Some(Ok(TRUE))
        /\ dest[f] = IF flags[f].kind = "StringFlag"
                     THEN InlineOf(Last.arg)
                     ELSE Append(Last.dest[f], InlineOf(Last.arg))
        /\ \A g \in 1..Len(flags) : g # f => dest[g] = Last.dest[g]
        /\ args = Last.rest
        /\ parsed_arguments = Last.parsed

\* C4 witness: `-s=k=v` with a token behind it: the value is k=v and the token
\* behind is still in the iterator.
C4_Witness ==
  /\ JustParsed
  /\ Last.arg = <<"-", "s", "=", "k", "=", "v">>
  /\ KindOf(Short("s")) = "StringFlag"
  /\ dest[DeclOf(Short("s"))] = <<"k", "=", "v">>
  /\ Last.rest # <<>>
  /\ args = Last.rest

----------------------------------------------------------------------------
(* C5 *)

\* C5: a BoolFlag matched by a token that carries an inline value (its long
\* alias, its short alias, or its character in a cluster once the characters
\* before it, RepeatFlags, have been counted) makes the call return
\* ExtraValueProvided naming that flag: -<char> for a short, the flag part for a
\* long; the boolean destination is left as it was.
C5_BoolExtraValue ==
  JustParsed /\ HasInline(Last.arg) =>
    LET part == FlagPartOf(Last.arg)
    IN  /\ IsLongForm(part) /\ KindOf(part) = "BoolFlag" =>
             /\ pc = "returned"
             /\ result = Err("ExtraValueProvided", part)
             /\ dest = Last.dest
        /\ IsCluster(part) =>
             \A i \in 1..Len(Tail(part)) :
               ( /\ KindOf(Short(Tail(part)[i])) = "BoolFlag"
                 /\ \A j \in 1..(i - 1) : KindOf(Short(Tail(part)[j])) = "RepeatFlag" )
               => /\ pc = "returned"
                  /\ result = Err("ExtraValueProvided", Short(Tail(part)[i]))
                  /\ dest[DeclOf(Short(Tail(part)[i]))]
                       = Last.dest[DeclOf(Short(Tail(part)[i]))]

\* C5 witness: `-va=` where -v is a RepeatFlag and -a a BoolFlag that is false:
\* -v is counted, then ExtraValueProvided names -a, which stays false.
C5_Witness ==
  /\ JustParsed
  /\ Last.arg = <<"-", "v", "a", "=">>
  /\ KindOf(Short("v")) = "RepeatFlag"
  /\ KindOf(Short("a")) = "BoolFlag"
  /\ result = Err("ExtraValueProvided", <<"-", "a">>)
  /\ dest[DeclOf(Short("v"))] = Last.dest[DeclOf(Short("v"))] + 1
  /\ dest[DeclOf(Short("a"))] = FALSE

----------------------------------------------------------------------------
(* C6 *)

\* the position of the first character of a cluster that is no declared short
\* alias (0 when every character is declared)
FirstUndeclared(chars) ==
  IF \E i \in 1..Len(chars) : ~Declared(Short(chars[i]))
  THEN CHOOSE i \in 1..Len(chars) :
         /\ ~Declared(Short(chars[i]))
         /\ \A j \in 1..(i - 1) : Declared(Short(chars[j]))
  ELSE 0

\* C6 as claimed: a token without '=' that starts with -- (and is not --) and
\* equals no declared alias makes either entry point return Unknown naming the
\* whole token; a short cluster that contains a character that is no declared
\* short alias makes it return Unknown naming -<char> for the first such
\* character.
C6_AsClaimed ==
  JustParsed /\ ~HasInline(Last.arg) =>
    /\ IsLongForm(Last.arg) /\ ~Declared(Last.arg) =>
         pc = "returned" /\ result = Err("Unknown", Last.arg)
    /\ IsCluster(Last.arg) /\ FirstUndeclared(Tail(Last.arg)) # 0 =>
         /\ pc = "returned"
         /\ result = Err("Unknown", Short(Tail(Last.arg)[FirstUndeclared(Tail(Last.arg))]))

\* The characters before position i of a cluster without '=' are parsed without
\* an error: BoolFlags and RepeatFlags, the last of them possibly a StringFlag
\* or ManyFlag that finds a token in the stream.
ParsedBefore(chars, i, rest) ==
  \/ PassesBefore(chars, i, FALSE)
  \/ /\ i > 1
     /\ PassesBefore(chars, i - 1, FALSE)
     /\ KindOf(Short(chars[i - 1])) \in ValueKinds
     /\ rest # <<>>

\* C6 amended: the long half as claimed; the short half for the first
\* undeclared character of a cluster whose earlier characters are parsed
\* without an error.
C6_UnknownFlag ==
  JustParsed /\ ~HasInline(Last.arg) =>
    /\ IsLongForm(Last.arg) /\ ~Declared(Last.arg) =>
         pc = "returned" /\ result = Err("Unknown", Last.arg)
    /\ ( /\ IsCluster(Last.arg)
         /\ FirstUndeclared(Tail(Last.arg)) # 0
         /\ ParsedBefore(Tail(Last.arg), FirstUndeclared(Tail(Last.arg)), Last.rest) ) =>
         /\ pc = "returned"
         /\ result = Err("Unknown", Short(Tail(Last.arg)[FirstUndeclared(Tail(Last.arg))]))

\* C6 witness: parse_flags_until_subcommand has parsed `-avq`, -a a BoolFlag, -v
\* a RepeatFlag and -q not declared: Unknown naming -q.
C6_Witness ==
  /\ fn = "parse_flags_until_subcommand"
  /\ JustParsed
  /\ Last.arg = <<"-", "a", "v", "q">>
  /\ KindOf(Short("a")) = "BoolFlag"
  /\ KindOf(Short("v")) = "RepeatFlag"
  /\ ~Declared(Short("q"))
  /\ result = Err("Unknown", <<"-", "q">>)

----------------------------------------------------------------------------
(* C7, C8, C9: the destinations after a successful parse_flags. *)

\* parse_flags has returned Ok
ParseFlagsOk == pc = "returned" /\ fn = "parse_flags" /\ result.ok

\* the k-th token the current call pulled was parsed as a flag
ParsedAsFlag(k) == trace[k].how = "parsed" /\ trace[k].ret = Some(Ok(TRUE))

\* what one token parsed as a flag adds to the counter of declaration f: the
\* occurrences of f's short characters in a cluster, one for a long alias of f
RepeatAdds(tok, f) ==
  LET part == FlagPartOf(tok)
  IN  IF IsLongForm(part) THEN (IF part \in Aliases(f) THEN 1 ELSE 0)
      ELSE IF IsCluster(part)
      THEN Cardinality({ i \in 1..Len(Tail(part)) : Short(Tail(part)[i]) \in Aliases(f) })
      ELSE 0

RECURSIVE SumRepeatAdds(_, _)
SumRepeatAdds(k, f) ==
  IF k = 0 THEN 0
  ELSE SumRepeatAdds(k - 1, f)
         + (IF ParsedAsFlag(k) THEN RepeatAdds(trace[k].arg, f) ELSE 0)

\* a token made of RepeatFlag aliases only: a cluster of them, or a long alias
RepeatOnly(tok) ==
  LET part == FlagPartOf(tok)
  IN  \/ IsLongForm(part) /\ KindOf(part) = "RepeatFlag"
      \/ /\ IsCluster(part)
         /\ \A i \in 1..Len(Tail(part)) : KindOf(Short(Tail(part)[i])) = "RepeatFlag"

\* C7: RepeatFlag counting: after a successful parse_flags each counter equals
\* its value at the call plus the occurrences of its short character over the
\* clusters parsed as flags plus one for every token that is one of its long
\* aliases; and a RepeatFlag token pulls no token from the iterator.
C7_RepeatFlagCounts ==
  /\ ParseFlagsOk =>
       \A f \in 1..Len(flags) :
         flags[f].kind = "RepeatFlag" =>
           dest[f] = dest0[f] + SumRepeatAdds(Len(trace), f)
  /\ JustParsed /\ RepeatOnly(Last.arg) =>
       /\ Last.ret = Some(Ok(TRUE))
       /\ args = Last.rest

\* C7 witness: parse_flags has returned Ok for -vv --verb x: the counter is
\* three more than at the call, and x is the one positional.
C7_Witness ==
  /\ ParseFlagsOk
  /\ args0 = << <<"-", "v", "v">>, <<"-", "-", "v", "e", "r", "b">>, <<"x">> >>
  /\ dest[DeclOf(Short("v"))] = dest0[DeclOf(Short("v"))] + 3
  /\ result.val = << <<"x">> >>

\* the value the k-th token gave its value-taking flag
ValueOf(k) ==
  IF HasInline(trace[k].arg) THEN InlineOf(trace[k].arg) ELSE Head(trace[k].rest)

\* the k-th token is an occurrence of the value-taking declaration f
Occurs(k, f) == ParsedAsFlag(k) /\ f \in Reached(trace[k].arg, {flags[f].kind})

RECURSIVE ValuesOf(_, _)
ValuesOf(k, f) ==
  IF k = 0 THEN <<>>
  ELSE IF Occurs(k, f) THEN Append(ValuesOf(k - 1, f), ValueOf(k))
  ELSE ValuesOf(k - 1, f)

\* C8: ManyFlag accumulation: after a successful parse_flags the vector is its
\* contents at the call followed by the value of every occurrence of the flag
\* (inline or next token), in input order.
C8_ManyFlagAccumulates ==
  ParseFlagsOk =>
    \A f \in 1..Len(flags) :
      flags[f].kind = "ManyFlag" =>
        dest[f] = dest0[f] \o ValuesOf(Len(trace), f)

\* C8 witness: parse_flags has returned Ok for -m=y --many x: the vector ends
\* with y, x, in input order and not sorted.
C8_Witness ==
  /\ ParseFlagsOk
  /\ args0 = << <<"-", "m", "=", "y">>, <<"-", "-", "m", "a", "n", "y">>, <<"x">> >>
  /\ dest[DeclOf(Short("m"))] = dest0[DeclOf(Short("m"))] \o << <<"y">>, <<"x">> >>
  /\ result.val = <<>>

\* C9: StringFlag overwrite: after a successful parse_flags a StringFlag
\* destination holds the value of the flag's last occurrence, and its value at
\* the call when the flag did not occur.
C9_StringFlagLastWins ==
  ParseFlagsOk =>
    \A f \in 1..Len(flags) :
      flags[f].kind = "StringFlag" =>
        IF \E k \in 1..Len(trace) : Occurs(k, f)
        THEN LET last == CHOOSE k \in 1..Len(trace) :
                           Occurs(k, f) /\ \A j \in (k + 1)..Len(trace) : ~Occurs(j, f)
             IN  dest[f] = ValueOf(last)
        ELSE dest[f] = dest0[f]

\* C9 witness: parse_flags has returned Ok for -s x --str=y: the destination
\* holds y, the value of the second occurrence.
C9_Witness ==
  /\ ParseFlagsOk
  /\ args0 = << <<"-", "s">>, <<"x">>, <<"-", "-", "s", "t", "r", "=", "y">> >>
  /\ KindOf(Short("s")) = "StringFlag"
  /\ DeclOf(Short("s")) = DeclOf(<<"-", "-", "s", "t", "r">>)
  /\ dest[DeclOf(Short("s"))] = <<"y">>

----------------------------------------------------------------------------
(* C10 *)

\* C10: for an input that is -- followed by a rest that holds no further --,
\* parse_flags returns Ok with the rest, unchanged and in order, as the
\* positionals: -- is not in it, no token of the rest is parsed as a flag, no
\* destination is changed and no error is returned.
C10_TerminatorKeepsRest ==
  ( /\ pc = "returned"
    /\ fn = "parse_flags"
    /\ args0 # <<>>
    /\ Head(args0) = DashDash
    /\ \A i \in 2..Len(args0) : args0[i] # DashDash ) =>
    /\ result = Ok(Tail(args0))
    /\ dest = dest0
    /\ \A k \in 2..Len(trace) : trace[k].how = "ignored"

\* C10 witness: parse_flags has returned for -- -vv -s: both tokens are
\* positionals although -vv is a declared RepeatFlag and -s wants a value.
C10_Witness ==
  /\ pc = "returned"
  /\ fn = "parse_flags"
  /\ args0 = << DashDash, <<"-", "v", "v">>, <<"-", "s">> >>
  /\ result = Ok(<< <<"-", "v", "v">>, <<"-", "s">> >>)
  /\ dest = dest0

----------------------------------------------------------------------------
(* C11 *)

\* the iterator and the destinations as the k-th iteration of the current call
\* left them
RestAfter(k) ==
  IF k < Len(trace) THEN <<trace[k + 1].arg>> \o trace[k + 1].rest ELSE args

DestAfter(k) == IF k < Len(trace) THEN trace[k + 1].dest ELSE dest

\* the tokens the iteration made last took from the iterator: the token the
\* loop pulled, then what parse_arg pulled for it
TakenByLast == <<Last.arg>> \o SubSeq(Last.rest, 1, Len(Last.rest) - Len(args))

\* C11 as claimed: every bare - that leaves the iterator is positional:
\* parse_arg is not called for it, no destination changes, parse_flags appends
\* it to the positionals and parse_flags_until_subcommand returns it.
C11_AsClaimed ==
  trace # <<>> =>
    \A i \in 1..Len(TakenByLast) :
      TakenByLast[i] = Dash =>
        /\ i = 1
        /\ Last.ret = None
        /\ dest = Last.dest
        /\ fn = "parse_flags" => parsed_arguments = Append(Last.parsed, Dash)
        /\ fn = "parse_flags_until_subcommand" => result = Ok(Dash)

\* C11 amended: a bare - that the loop of an entry point pulls is positional:
\* parse_arg is not called for it, the iteration changes no destination and
\* pulls nothing more, and no error is returned for it; parse_flags appends it
\* to the positionals it returns, parse_flags_until_subcommand returns it.
C11_BareDashPositional ==
  \A k \in 1..Len(trace) :
    trace[k].arg = Dash =>
      /\ trace[k].ret = None
      /\ DestAfter(k) = trace[k].dest
      /\ RestAfter(k) = trace[k].rest
      /\ k = Len(trace) /\ pc = "returned" => result.ok
      /\ fn = "parse_flags" =>
           /\ Len(parsed_arguments) > Len(trace[k].parsed)
           /\ SubSeq(parsed_arguments, 1, Len(trace[k].parsed) + 1)
                = Append(trace[k].parsed, Dash)
           /\ ParseFlagsOk =>
                SubSeq(result.val, 1, Len(trace[k].parsed) + 1)
                  = Append(trace[k].parsed, Dash)
      /\ fn = "parse_flags_until_subcommand" =>
           /\ k = Len(trace)
           /\ pc = "returned"
           /\ result = Ok(Dash)

\* C11 witness: parse_flags has returned for x - -vv: the - is the second
\* positional, and the cluster after it was still parsed.
C11_Witness ==
  /\ ParseFlagsOk
  /\ args0 = << <<"x">>, Dash, <<"-", "v", "v">> >>
  /\ trace[2].arg = Dash
  /\ trace[2].ret = None
  /\ result.val = << <<"x">>, Dash >>
  /\ dest[DeclOf(Short("v"))] = dest0[DeclOf(Short("v"))] + 2

----------------------------------------------------------------------------
(* C12 *)

\* no token of the stream starts with a dash
NoDashTokens(stream) ==
  \A i \in 1..Len(stream) : stream[i] = <<>> \/ Head(stream[i]) # "-"

\* C12: for an input in which no token starts with -, parse_flags moves the
\* tokens one by one to the positionals without touching a destination, and
\* returns Ok with exactly the input, in order.
C12_PositionalsOnly ==
  fn = "parse_flags" /\ NoDashTokens(args0) =>
    /\ dest = dest0
    /\ pc = "parse_flags" => parsed_arguments \o args = args0
    /\ pc = "returned" => result = Ok(args0) /\ args = <<>>

\* C12 witness: parse_flags has returned the three tokens w=1, "" and x as they
\* came, with destinations that held values before the call.
C12_Witness ==
  /\ pc = "returned"
  /\ fn = "parse_flags"
  /\ args0 = << <<"w", "=", "1">>, <<>>, <<"x">> >>
  /\ result = Ok(args0)
  /\ flags = TableB.flags
  /\ dest = dest0

----------------------------------------------------------------------------
(* C13 *)

\* a token that reads as a positional: it does not start with a dash, or is
\* the bare dash
IsPositionalToken(tok) == tok = <<>> \/ Head(tok) # "-" \/ tok = Dash

\* a flag token that takes the token behind it as its value
TakesNext(tok) ==
  ~IsPositionalToken(tok) /\ ~HasInline(tok) /\ Reached(tok, ValueKinds) # {}

\* The positionals of a stream that holds no --, read off the tokens: the
\* tokens that are neither flag tokens nor the value behind a flag token.
RECURSIVE RefPositionals(_)
RefPositionals(stream) ==
  IF stream = <<>> THEN <<>>
  ELSE IF IsPositionalToken(Head(stream))
  THEN <<Head(stream)>> \o RefPositionals(Tail(stream))
  ELSE IF TakesNext(Head(stream)) /\ Len(stream) >= 2
  THEN RefPositionals(Tail(Tail(stream)))
  ELSE RefPositionals(Tail(stream))

\* the tokens of the input that were gone from the iterator when the k-th
\* iteration of the current call pulled its token
ConsumedBefore(k) == SubSeq(args0, 1, Len(args0) - Len(trace[k].rest) - 1)

\* the tokens of the input that are gone from the iterator now
Consumed == SubSeq(args0, 1, Len(args0) - Len(args))

\* no -- has been pulled before the k-th iteration
BeforeTerminator(k) == \A j \in 1..(k - 1) : trace[j].how # "terminator"

\* C13: in parse_flags, as long as no -- has been pulled, the positionals
\* collected are the non-flag, non-value tokens consumed so far, in input
\* order, and a token that starts with a dash (the bare - apart) is handed to
\* parse_arg and read as a flag however many positionals came before it; the
\* positionals returned are the ones collected.
C13_PositionalsInOrder ==
  fn = "parse_flags" =>
    /\ \A k \in 1..Len(trace) :
         BeforeTerminator(k) =>
           /\ trace[k].parsed = RefPositionals(ConsumedBefore(k))
           /\ ~IsPositionalToken(trace[k].arg) /\ trace[k].arg # DashDash =>
                /\ trace[k].how = "parsed"
                /\ trace[k].ret # Some(Ok(FALSE))
    /\ ~ignore_rest /\ (pc = "parse_flags" \/ ParseFlagsOk) =>
         parsed_arguments = RefPositionals(Consumed)
    /\ ParseFlagsOk => result.val = parsed_arguments

\* C13 witness: parse_flags has returned for -vv x --verb: the flags before and
\* after the positional x were both counted.
C13_Witness ==
  /\ ParseFlagsOk
  /\ args0 = << <<"-", "v", "v">>, <<"x">>, <<"-", "-", "v", "e", "r", "b">> >>
  /\ result.val = << <<"x">> >>
  /\ trace[3].parsed = << <<"x">> >>
  /\ trace[3].ret = Some(Ok(TRUE))
  /\ dest[DeclOf(Short("v"))] = dest0[DeclOf(Short("v"))] + 3

----------------------------------------------------------------------------
(* C14 *)

\* parse_flags_until_subcommand has returned the token it pulled last
ReturnedSubcommand ==
  /\ fn = "parse_flags_until_subcommand"
  /\ pc = "returned"
  /\ result.ok
  /\ trace # <<>>
  /\ Last.ret # Some(Ok(TRUE))

\* C14: when parse_flags_until_subcommand returns a positional, every token
\* before it was parsed as a flag (or taken as a flag's value), it is the first
\* positional of the input, and the iterator holds exactly the tokens of the
\* input behind it; a parse_flags call that follows, with the same or another
\* table, starts with no positionals and ignore_rest off, has these tokens as
\* its input and returns their positionals as a first call would.
C14_SubcommandSplit ==
  /\ ReturnedSubcommand =>
       /\ result.val = Last.arg
       /\ args = Last.rest
       /\ args0 = Consumed \o args
       /\ Consumed[Len(Consumed)] = result.val
       /\ \A k \in 1..(Len(trace) - 1) : ParsedAsFlag(k)
       /\ RefPositionals(ConsumedBefore(Len(trace))) = <<>>
       /\ IsPositionalToken(Last.arg) \/ Last.arg = DashDash
  /\ fn = "parse_flags" /\ sub.some =>
       /\ Len(args0) <= Len(sub.v.args0)
       /\ args0 = SubSeq(sub.v.args0, Len(sub.v.args0) - Len(args0) + 1,
                         Len(sub.v.args0))
       /\ \/ args0 = <<>> /\ sub.v.val = <<>>
          \/ /\ Len(args0) < Len(sub.v.args0)
             /\ sub.v.args0[Len(sub.v.args0) - Len(args0)] = sub.v.val
       /\ trace = <<>> /\ pc = "parse_flags" =>
            parsed_arguments = <<>> /\ ~ignore_rest /\ args = args0
       /\ ParseFlagsOk /\ ~ignore_rest => result.val = RefPositionals(args0)

\* C14 witness: -vv x --verb was split at x under TableA, and parse_flags
\* under TableB has returned for the rest --verb: there is no positional and
\* TableB's counter, 1 at the call, is 2.
C14_Witness ==
  /\ ParseFlagsOk
  /\ sub = Some([flags |-> TableA.flags,
                 args0 |-> << <<"-", "v", "v">>, <<"x">>,
                              <<"-", "-", "v", "e", "r", "b">> >>,
                 val   |-> <<"x">>])
  /\ flags = TableB.flags
  /\ args0 = << <<"-", "-", "v", "e", "r", "b">> >>
  /\ result.val = <<>>
  /\ dest[3] = 2
  /\ dest0 = TableB.dest

----------------------------------------------------------------------------
(* C15 *)

\* The tokens of a stream at which parse_flags_until_subcommand would stop,
\* read off the tokens: the positionals, -- counted as one.
RECURSIVE RefSubcommands(_)
RefSubcommands(stream) ==
  IF stream = <<>> THEN <<>>
  ELSE IF IsPositionalToken(Head(stream)) \/ Head(stream) = DashDash
  THEN <<Head(stream)>> \o RefSubcommands(Tail(stream))
  ELSE IF TakesNext(Head(stream)) /\ Len(stream) >= 2
  THEN RefSubcommands(Tail(Tail(stream)))
  ELSE RefSubcommands(Tail(stream))

NoEmptyToken(stream) == \A i \in 1..Len(stream) : stream[i] # <<>>

\* C15: for an input without empty-string token, a parse_flags_until_subcommand
\* that returns Ok returns "" when the input holds no positional, and only
\* then; the stream is then exhausted and every token pulled was parsed as a
\* flag.
C15_EmptySentinel ==
  ( /\ fn = "parse_flags_until_subcommand"
    /\ pc = "returned"
    /\ result.ok
    /\ NoEmptyToken(args0) ) =>
    /\ RefSubcommands(args0) = <<>> <=> result = Ok(<<>>)
    /\ result = Ok(<<>>) =>
         /\ args = <<>>
         /\ \A k \in 1..Len(trace) : ParsedAsFlag(k)

\* C15 witness: parse_flags_until_subcommand has returned "" for -vv -s x: x is
\* the value of -s, no token is a positional, the stream is exhausted and both
\* flags were applied.
C15_Witness ==
  /\ fn = "parse_flags_until_subcommand"
  /\ pc = "returned"
  /\ args0 = << <<"-", "v", "v">>, <<"-", "s">>, <<"x">> >>
  /\ KindOf(Short("s")) = "StringFlag"
  /\ result = Ok(<<>>)
  /\ args = <<>>
  /\ dest[DeclOf(Short("s"))] = <<"x">>
  /\ dest[DeclOf(Short("v"))] = dest0[DeclOf(Short("v"))] + 2

----------------------------------------------------------------------------
(* C16 *)

\* C16: when the loop of parse_flags_until_subcommand pulls --, the call
\* returns Ok("--") at once: parse_arg is not called, no destination changes
\* and the iterator stands just behind the --; the parse_flags call that
\* follows starts with ignore_rest off, hands its first token to parse_arg
\* when it starts with a dash, and turns ignore_rest on only for a -- of its own.
C16_DashDashIsSubcommand ==
  /\ fn = "parse_flags_until_subcommand" /\ trace # <<>> /\ Last.arg = DashDash =>
       /\ Last.ret = None
       /\ pc = "returned"
       /\ result = Ok(DashDash)
       /\ args = Last.rest
       /\ dest = Last.dest
  /\ fn = "parse_flags" /\ sub.some /\ sub.v.val = DashDash =>
       /\ trace = <<>> => ~ignore_rest
       /\ ignore_rest => \E k \in 1..Len(trace) : trace[k].how = "terminator"
       /\ trace # <<>> /\ ~IsPositionalToken(trace[1].arg) /\ trace[1].arg # DashDash =>
            trace[1].how = "parsed"

\* C16 witness: -- -vv x was split at the --, and the parse_flags call that
\* followed counted -vv as a flag and returned x alone, ignore_rest still off.
C16_Witness ==
  /\ ParseFlagsOk
  /\ sub.some
  /\ sub.v.val = DashDash
  /\ sub.v.args0 = << DashDash, <<"-", "v", "v">>, <<"x">> >>
  /\ args0 = << <<"-", "v", "v">>, <<"x">> >>
  /\ ~ignore_rest
  /\ result.val = << <<"x">> >>
  /\ dest[DeclOf(Short("v"))] = dest0[DeclOf(Short("v"))] + 2

----------------------------------------------------------------------------
(* C17 *)

\* C17: with a table that passes check_flags, an entry point never panics, and
\* what it returns is Ok or an Err of one of the four kinds of FlagErrorType.
C17_ReturnsNormally ==
  check_flags(flags) =>
    /\ pc # "panicked"
    /\ pc = "returned" => result.ok \/ result.error_type \in FlagErrorType

----------------------------------------------------------------------------
(* C18 *)

\* The declaration invariants on one alias: at least two characters, no
\* whitespace, a two-character alias is one dash and a character that is no
\* dash, a longer one starts with exactly two dashes.
WellFormedAlias(alias) ==
  /\ Len(alias) >= 2
  /\ ~ \E i \in 1..Len(alias) : IsWhitespace(alias[i])
  /\ IF Len(alias) = 2
     THEN alias[1] = "-" /\ alias[2] # "-"
     ELSE alias[1] = "-" /\ alias[2] = "-" /\ alias[3] # "-"

WellFormedTable(table) ==
  \A f \in 1..Len(table) : \A n \in 1..Len(table[f].names) :
    WellFormedAlias(table[f].names[n])

\* the call made last panicked in check_flags, before its loop
PanickedInCheck == pc = "panicked" /\ trace = <<>>

\* C18: a call of an entry point panics in check_flags, with no token consumed
\* and no destination changed, when some alias of the table breaks a
\* declaration invariant, and does not panic there when none does.
C18_ValidationAborts ==
  fn # "none" =>
    IF WellFormedTable(flags)
    THEN ~PanickedInCheck
    ELSE PanickedInCheck /\ args = args0 /\ dest = dest0

----------------------------------------------------------------------------
(* C19, C20 *)

\* C19: once is_underline_style_supported has returned, UNDERLINE_SUPPORTED
\* holds what its first call returned, and every later call returns that value
\* whatever the environment has become, in every order of the calls.
C19_UnderlineProbeMemoised ==
  probed.some =>
    /\ UNDERLINE_SUPPORTED = probed
    /\ called.fn = "is_underline_style_supported" => called.ret = probed.v

\* C20: once overwrite_should_use_colors(v) has been called, USE_COLORS holds
\* the v of its last call and every call of should_use_colors made since
\* returns it, whatever the environment and whatever was called before.
C20_OverwriteIsPermanent ==
  overwritten.some =>
    /\ USE_COLORS = overwritten
    /\ called.fn = "should_use_colors" => called.ret = overwritten.v

\* C20 witness: should_use_colors was called first and cached its value, the
\* overwrite then gave the opposite of what the environment says, and the
\* call of should_use_colors made last returned the overwriting value.
C20_Witness ==
  /\ UNDERLINE_SUPPORTED_INIT
  /\ ~UNDERLINE_SUPPORTED.some
  /\ overwritten = Some(TRUE)
  /\ ~ShouldUseColorsValue(env)
  /\ called = [fn |-> "should_use_colors", ret |-> TRUE]

----------------------------------------------------------------------------
(* name_from_path *)

\* the part of p after its last separator, p itself when it has none
RECURSIVE AfterLastSeparator(_, _)
AfterLastSeparator(p, seps) ==
  IF \A k \in 1..Len(p) : p[k] \notin seps THEN p
  ELSE AfterLastSeparator(Tail(p), seps)

\* C21: for every path, name_from_path returns the part of the path after
\* its last directory separator ("/", and "\" too on Windows), the whole path
\* when it has no separator, and the result contains no separator.
C21_NameFromPath ==
  name.some =>
    /\ name.v.ok
    /\ name.v.val = AfterLastSeparator(path, IF windows THEN {"/", "\\"} ELSE {"/"})
    /\ \A k \in 1..Len(name.v.val) :
         name.v.val[k] \notin (IF windows THEN {"/", "\\"} ELSE {"/"})

----------------------------------------------------------------------------
(* PrintableColor::byte *)

\* the 8-bit colour code the claim gives a colour other than Color::None
PaletteIndex(c) ==
  CASE c.kind = "Byte" -> c.n
    [] c.kind = "RGB"  -> rgb_to_byte(c.r, c.g, c.b)
    [] OTHER -> (CHOOSE k \in 1..Len(NamedColors) : NamedColors[k] = c.kind) - 1

\* C22: byte() converts every colour other than Color::None without a panic:
\* a named colour gives its palette index 0..15, Byte(n) gives n, RGB(r, g, b)
\* gives rgb_to_byte(r, g, b); and underline() returns for every named colour.
C22_ByteOfEveryColor ==
  /\ (method = "byte" /\ color.kind # "None") =>
       printed.v = Ok(PaletteIndex(color))
  /\ (method = "underline" /\ color.kind \notin {"None", "Byte", "RGB"}) =>
       printed.v.ok

----------------------------------------------------------------------------
(* C23 *)

\* C23: in parse_flags, once a -- has been seen, every token the loop pulls
\* afterwards is appended to the positionals, a second -- included.
C23_RestIsPositional ==
  (/\ fn = "parse_flags"
   /\ trace # <<>>
   /\ \E j \in 1..(Len(trace) - 1) : trace[j].how = "terminator")
    => /\ Last.how = "ignored"
       /\ parsed_arguments = Append(Last.parsed, Last.arg)

----------------------------------------------------------------------------
(* C24 *)

\* C24: once a character c of a short cluster is a StringFlag or ManyFlag that
\* has taken its value (inline, or the next token), whatever character follows
\* it, declared or not, the call returns CannotCombine naming -c and no other
\* error.
C24_CannotCombineWhateverFollows ==
  JustParsed /\ IsCluster(FlagPartOf(Last.arg)) =>
    LET chars  == Tail(FlagPartOf(Last.arg))
        inline == HasInline(Last.arg)
    IN  \A i \in 1..(Len(chars) - 1) :
          ( /\ KindOf(Short(chars[i])) \in ValueKinds
            /\ PassesBefore(chars, i, inline)
            /\ (inline \/ Last.rest # <<>>) )
          => /\ pc = "returned"
             /\ result = Err("CannotCombine", Short(chars[i]))

----------------------------------------------------------------------------
(* C25 *)

\* the token uses an alias of the declaration f: its flag part is the alias, or
\* it is a cluster one of whose characters is the alias
Uses(tok, f) ==
  LET part == FlagPartOf(tok)
  IN  \/ part \in Aliases(f)
      \/ IsCluster(part) /\ \E i \in 1..Len(Tail(part)) : Short(Tail(part)[i]) \in Aliases(f)

\* C25: when two declarations share an alias, the first in declaration order
\* wins: a token that uses the alias leaves the destination of the later
\* declaration as it was and takes one value at most from the iterator.
C25_FirstMatchWins ==
  JustParsed =>
    \A f \in 1..Len(flags) : \A g \in 1..Len(flags) :
      (f < g /\ Aliases(f) \cap Aliases(g) # {} /\ Uses(Last.arg, f)
         /\ Uses(Last.arg, g)) =>
        /\ dest[g] = Last.dest[g]
        /\ Len(Last.rest) - Len(args) <= 1

----------------------------------------------------------------------------
(* C26 *)

\* parse_arg has just returned an error for the token the loop pulled last
JustFailed == JustParsed /\ ~Last.ret.v.ok /\ Last.ret.v # Panic

\* C26: fail-fast: either entry point returns the error of the first token
\* parse_arg fails for, at once; of the tokens behind the failing token at most
\* one, the value it pulled, has left the iterator and the others are still in
\* it; the destinations written are those of the characters up to the one the
\* parsing stopped at (none for a long flag); and the value returned is the
\* error, with no positional list.
C26_FailFast ==
  JustFailed =>
    LET part   == FlagPartOf(Last.arg)
        chars  == Tail(part)
        inline == HasInline(Last.arg)
    IN  /\ pc = "returned"
        /\ result = Last.ret.v
        /\ result.error_type \in FlagErrorType
        /\ \A k \in 1..(Len(trace) - 1) : trace[k].ret.some => trace[k].ret.v.ok
        /\ args = Last.rest \/ (Last.rest # <<>> /\ args = Tail(Last.rest))
        /\ IF IsCluster(part)
           THEN \A f \in 1..Len(flags) :
                  dest[f] # Last.dest[f] =>
                    \E i \in 1..Len(chars) :
                      /\ PassesBefore(chars, i, inline)
                      /\ \E j \in 1..i : Short(chars[j]) \in Aliases(f)
           ELSE dest = Last.dest

\* C26 witness: parse_flags on `-sa -b w` with -s a StringFlag and -a
\* a BoolFlag: -s pulls -b as its value, -a makes the call return
\* CannotCombine, and w is still in the iterator.
C26_Witness ==
  /\ fn = "parse_flags"
  /\ JustFailed
  /\ Last.arg = <<"-", "s", "a">>
  /\ Last.rest = << <<"-", "b">>, <<"w">> >>
  /\ KindOf(Short("s")) = "StringFlag"
  /\ result = Err("CannotCombine", <<"-", "s">>)
  /\ args = << <<"w">> >>
  /\ dest[DeclOf(Short("s"))] = <<"-", "b">>

----------------------------------------------------------------------------
(* C27 *)

\* C27: no flag-looking token is silently swallowed: a token parse_arg reports
\* as a flag (Ok(true)) has used an alias of some declaration; and a token
\* that starts with a dash and uses no alias (-=x and --=x among them) is
\* reported as no flag (Ok(false), a positional) or makes the call return
\* Unknown.
C27_NothingSwallowed ==
  JustParsed =>
    /\ Last.ret.v = Ok(TRUE) => \E f \in 1..Len(flags) : Uses(Last.arg, f)
    /\ (StartsWith(Last.arg, <<"-">>) /\ \A f \in 1..Len(flags) : ~Uses(Last.arg, f)) =>
         \/ Last.ret.v = Ok(FALSE)
         \/ (~Last.ret.v.ok /\ Last.ret.v.error_type = "Unknown")

----------------------------------------------------------------------------
(* C28 *)

\* the tokens parse_arg pulled from the iterator for the k-th token of the call
PulledBy(k) == SubSeq(trace[k].rest, 1, Len(trace[k].rest) - Len(RestAfter(k)))

\* The tokens that have left the iterator up to the k-th iteration, each with
\* the role it was consumed in: the token the loop pulled is a terminator, a
\* flag or a positional, the tokens parse_arg pulled for it are values.
RECURSIVE RolesUpTo(_)
RolesUpTo(k) ==
  IF k = 0 THEN <<>>
  ELSE RolesUpTo(k - 1)
         \o << [tok  |-> trace[k].arg,
                role |-> IF trace[k].how = "terminator" THEN "terminator"
                         ELSE IF ParsedAsFlag(k) THEN "flag"
                         ELSE "positional"] >>
         \o [i \in 1..Len(PulledBy(k)) |-> [tok |-> PulledBy(k)[i], role |-> "value"]]

\* the tokens of a sequence of roles that are positionals, in order
RECURSIVE PositionalsOf(_)
PositionalsOf(roles) ==
  IF roles = <<>> THEN <<>>
  ELSE (IF Head(roles).role = "positional" THEN <<Head(roles).tok>> ELSE <<>>)
         \o PositionalsOf(Tail(roles))

\* C28: token conservation: when parse_flags returns Ok the iterator is
\* exhausted and the tokens consumed, each in its one role, are the input token
\* for token: a value is the token right behind a flag token, and every
\* value-taking flag token without inline value has one; a terminator is a --;
\* the positionals returned are the tokens with that role, in order, so that
\* no value is a positional and nothing is returned that was not in the input.
C28_TokenConservation ==
  ParseFlagsOk =>
    LET roles == RolesUpTo(Len(trace))
    IN  /\ args = <<>>
        /\ Len(roles) = Len(args0)
        /\ \A i \in 1..Len(roles) :
             /\ roles[i].tok = args0[i]
             /\ roles[i].role = "terminator" => args0[i] = DashDash
             /\ roles[i].role = "value" =>
                  i > 1 /\ roles[i - 1].role = "flag" /\ TakesNext(args0[i - 1])
             /\ roles[i].role = "flag" /\ TakesNext(args0[i]) =>
                  i < Len(roles) /\ roles[i + 1].role = "value"
        /\ result.val = PositionalsOf(roles)

\* C28 witness: parse_flags has returned Ok for --many x x: the first x is the
\* value of --many and no positional, the second x is the one positional.
C28_Witness ==
  /\ ParseFlagsOk
  /\ args0 = << <<"-", "-", "m", "a", "n", "y">>, <<"x">>, <<"x">> >>
  /\ args = <<>>
  /\ result.val = << <<"x">> >>
  /\ dest[DeclOf(<<"-", "-", "m", "a", "n", "y">>)]
       = Append(dest0[DeclOf(<<"-", "-", "m", "a", "n", "y">>)], <<"x">>)

----------------------------------------------------------------------------
(* C29 *)

\* the k-th token of the call is a value-taking flag without inline value that
\* was handed to parse_arg with a token that starts with a dash behind it
TakesDashed(k) ==
  /\ trace[k].how = "parsed"
  /\ ~HasInline(trace[k].arg)
  /\ Reached(trace[k].arg, ValueKinds) # {}
  /\ trace[k].rest # <<>>
  /\ StartsWith(Head(trace[k].rest), <<"-">>)

\* C29: a value-taking flag without inline value takes the next token as it
\* is, whatever it looks like (-x, --long, - or --): the token becomes the
\* value and leaves the iterator, the loop does not pull it and so never parses
\* it as a flag, a destination other than the flag's changes only if the flag
\* token itself uses it, and a -- taken this way does not turn ignore_rest on:
\* the token behind it is not treated as one behind a terminator.
C29_ValueTakenVerbatim ==
  \A k \in 1..Len(trace) :
    TakesDashed(k) =>
      LET value == Head(trace[k].rest)
      IN  /\ \A f \in Reached(trace[k].arg, ValueKinds) :
               DestAfter(k)[f] = IF flags[f].kind = "StringFlag" THEN value
                                 ELSE Append(trace[k].dest[f], value)
          /\ \A g \in 1..Len(flags) :
               DestAfter(k)[g] # trace[k].dest[g] => Uses(trace[k].arg, g)
          /\ RestAfter(k) = Tail(trace[k].rest)
          /\ k < Len(trace) =>
               /\ trace[k + 1].parsed = trace[k].parsed
               /\ trace[k + 1].how # "ignored"
          /\ (k = Len(trace) /\ fn = "parse_flags") => ~ignore_rest

\* C29 witness: parse_flags has returned Ok for -s -- -vv: the -- is the value
\* of -s, and the -vv behind it was still parsed as a flag.
C29_Witness ==
  /\ ParseFlagsOk
  /\ args0 = << <<"-", "s">>, DashDash, <<"-", "v", "v">> >>
  /\ dest[DeclOf(Short("s"))] = DashDash
  /\ dest[DeclOf(Short("v"))] = dest0[DeclOf(Short("v"))] + 2
  /\ ~ignore_rest
  /\ result.val = <<>>

----------------------------------------------------------------------------
(* C30 *)

\* C30: a token made of RepeatFlag aliases that carries an inline value
\* (-vv=3, --verb=3) is a flag and no error: each counter is incremented as
\* the token without the suffix increments it, the inline value reaches no
\* destination, and no token is pulled from the iterator.
C30_RepeatFlagDropsInline ==
  JustParsed /\ HasInline(Last.arg) /\ RepeatOnly(Last.arg) =>
    /\ Last.ret = Some(Ok(TRUE))
    /\ \A f \in 1..Len(flags) :
         dest[f] = IF flags[f].kind = "RepeatFlag"
                   THEN Last.dest[f] + RepeatAdds(Last.arg, f)
                   ELSE Last.dest[f]
    /\ args = Last.rest
    /\ parsed_arguments = Last.parsed
    /\ parse_arg(FlagPartOf(Last.arg), Last.rest, flags, Last.dest)
         = [ret |-> Ok(TRUE), args |-> args, dest |-> dest]

\* C30 witness: `-vv=k=v` has been parsed as a flag: the counter is two more
\* than before and the token behind it is still in the iterator.
C30_Witness ==
  /\ JustParsed
  /\ Last.arg = <<"-", "v", "v", "=", "k", "=", "v">>
  /\ Last.ret = Some(Ok(TRUE))
  /\ dest[DeclOf(Short("v"))] = Last.dest[DeclOf(Short("v"))] + 2
  /\ Last.rest # <<>>
  /\ args = Last.rest

============================================================================
